---- MODULE Spec2Model ----
(***************************************************************************)
(* Model of the marriage/divorce data pipeline: collector.py (fetch and   *)
(* clean), structurer.py (LLM call, JSON artifact) and loader.py (flatten, *)
(* numeric coercion, upsert into the demographics table).                  *)
(*                                                                         *)
(* Text is modelled as sequences of one-character strings, so that         *)
(* parsing (int(), pd.to_numeric, json.loads), trimming, lower-casing and  *)
(* the regular expression of the line filter are computed character by     *)
(* character.                                                              *)
(***************************************************************************)
EXTENDS Integers, Sequences, FiniteSets, TLC

VARIABLES
    \* ---- loader.py : load_data_and_upsert ----
    pc,                 \* position in load_data_and_upsert
    data,               \* the parsed content of structured_data.json
    flat_records,       \* the list built by the flatten loop
    records_to_upsert,  \* df.to_dict('records'), handed to the store
    table,              \* the rows of the store's table
    report,             \* the message the run printed last
    exit_status,        \* "running", "returned" (normal return, status 0), "raised"
    store_error,        \* TRUE when the upsert call of this run raised
    runs,               \* number of loader runs started
    \* ---- structurer.py : module body ----
    s_pc,               \* position in the script
    payload,            \* response.choices[0].message.content, as tokens
    artifact,           \* content of data/structured_data.json
    s_report,           \* the message the script printed last
    \* ---- collector.py : extract_clean_content ----
    c_pc,               \* position in extract_clean_content
    page,               \* the parsed page after the unwanted elements were removed
    main_content,       \* the container chosen by the selector loop
    lines,              \* text.split("\n") of the chosen container
    clean_lines         \* the lines the filter kept

loaderVars == <<pc, data, flat_records, records_to_upsert, table, report,
                exit_status, store_error, runs>>
structurerVars == <<s_pc, payload, artifact, s_report>>
collectorVars == <<c_pc, page, main_content, lines, clean_lines>>
vars == <<loaderVars, structurerVars, collectorVars>>

(***************************************************************************)
(* Characters and strings                                                  *)
(***************************************************************************)
DigitChars == {"0", "1", "2", "3", "4", "5", "6", "7", "8", "9"}

\* str.strip() / the whitespace int() skips
WhitespaceChars == {" ", "\t"}

DigitVal(c) ==
    CASE c = "0" -> 0 [] c = "1" -> 1 [] c = "2" -> 2 [] c = "3" -> 3
      [] c = "4" -> 4 [] c = "5" -> 5 [] c = "6" -> 6 [] c = "7" -> 7
      [] c = "8" -> 8 [] c = "9" -> 9

RECURSIVE LStrip(_)
LStrip(s) ==
    IF s # <<>> /\ Head(s) \in WhitespaceChars THEN LStrip(Tail(s)) ELSE s

RECURSIVE RStrip(_)
RStrip(s) ==
    IF s # <<>> /\ s[Len(s)] \in WhitespaceChars
    THEN RStrip(SubSeq(s, 1, Len(s) - 1))
    ELSE s

\* str.strip()
Strip(s) == RStrip(LStrip(s))

AllDigits(s) == s # <<>> /\ \A k \in 1..Len(s) : s[k] \in DigitChars

RECURSIVE DigitsValue(_)
DigitsValue(s) ==
    IF s = <<>> THEN 0
    ELSE 10 * DigitsValue(SubSeq(s, 1, Len(s) - 1)) + DigitVal(s[Len(s)])

(***************************************************************************)
(* JSON values of the loader.  A value is a record [t, i, f, s]:           *)
(*   t = "absent" (key not in the dict), "null", "nan" (pandas NaN),       *)
(*       "num" (i = integer part, f = fractional digits without trailing   *)
(*       zeros), "str" (s = the characters).                               *)
(***************************************************************************)
Absent == [t |-> "absent", i |-> 0, f |-> <<>>, s |-> <<>>]
Null == [t |-> "null", i |-> 0, f |-> <<>>, s |-> <<>>]
NaN == [t |-> "nan", i |-> 0, f |-> <<>>, s |-> <<>>]
Num(int, frac) == [t |-> "num", i |-> int, f |-> frac, s |-> <<>>]
Str(chars) == [t |-> "str", i |-> 0, f |-> <<>>, s |-> chars]

IsIntegerValue(v) == v.t = "num" /\ v.f = <<>>

Fields == {"country", "year", "marriage_rate", "divorce_rate",
           "extracted_at", "updated_at"}

\* Python int(str): surrounding whitespace skipped, an optional sign, then
\* one or more digits; anything else is a ValueError (ok = FALSE).
ParseInt(s) ==
    LET t == Strip(s)
        signed == t # <<>> /\ Head(t) \in {"+", "-"}
        digits == IF signed THEN Tail(t) ELSE t
    IN  IF AllDigits(digits)
        THEN [ok |-> TRUE,
              v |-> IF signed /\ Head(t) = "-" THEN 0 - DigitsValue(digits)
                    ELSE DigitsValue(digits)]
        ELSE [ok |-> FALSE, v |-> 0]


IndexOfDot(s) ==
    IF \E k \in 1..Len(s) : s[k] = "."
    THEN CHOOSE k \in 1..Len(s) : s[k] = "." /\ \A j \in 1..(k - 1) : s[j] # "."
    ELSE 0

RECURSIVE TrimZeros(_)
TrimZeros(s) ==
    IF s # <<>> /\ s[Len(s)] = "0" THEN TrimZeros(SubSeq(s, 1, Len(s) - 1)) ELSE s

\* The string case of pd.to_numeric: a decimal literal (optional sign,
\* digits, optional fraction) becomes a number, every other text is a parse
\* failure.  Exponents, "inf" and "nan" are outside the modelled alphabet.
ParseDecimal(s) ==
    LET t == Strip(s)
        signed == t # <<>> /\ Head(t) \in {"+", "-"}
        body == IF signed THEN Tail(t) ELSE t
        dot == IndexOfDot(body)
        ip == IF dot = 0 THEN body ELSE SubSeq(body, 1, dot - 1)
        fp == IF dot = 0 THEN <<>> ELSE SubSeq(body, dot + 1, Len(body))
        wellFormed ==
            /\ ip # <<>> \/ fp # <<>>
            /\ \A k \in 1..Len(ip) : ip[k] \in DigitChars
            /\ \A k \in 1..Len(fp) : fp[k] \in DigitChars
        magnitude == IF ip = <<>> THEN 0 ELSE DigitsValue(ip)
    IN  IF wellFormed
        THEN [ok |-> TRUE,
              v |-> Num(IF signed /\ Head(t) = "-" THEN 0 - magnitude ELSE magnitude,
                        TrimZeros(fp))]
        ELSE [ok |-> FALSE, v |-> NaN]

\* pd.to_numeric(cell, errors='coerce'), loader.py line 112: numbers stay,
\* numeric text is parsed, everything else (None, NaN, other text) is NaN.
ToNumeric(v) ==
    CASE v.t = "num" -> v
      [] v.t = "str" -> ParseDecimal(v.s).v
      [] OTHER -> NaN

\* pd.notna
NotNA(v) == v.t \notin {"null", "nan"}

(***************************************************************************)
(* The documents the loader reads.                                         *)
(* A document (root mapping) is a sequence, in document order, of          *)
(*   [name |-> country key, isMap |-> is the country's value a dict,       *)
(*    years |-> sequence of [key |-> year key, kind, rec]]                 *)
(* where kind is "map" (rec holds the inner dict's fields), "list" or      *)
(* "scalar" (a number, string or null in place of the inner dict).         *)
(***************************************************************************)
France == <<"F", "r", "a", "n", "c", "e">>
Spain == <<"S", "p", "a", "i", "n">>
Countries == {France, Spain}

Key2019 == <<"2", "0", "1", "9">>
Key2020 == <<"2", "0", "2", "0">>
KeyNotAYear == <<"n", "o", "t", "-", "a", "-", "y", "e", "a", "r">>
YearKeys == {Key2019, Key2020, KeyNotAYear}

NoFields == [fld \in Fields |-> Absent]

\* The model service's epoch stamp of the prompt template, structurer.py line 51
EpochStamp == Num(1672531199, <<>>)

\* Wall-clock readings: datetime.utcnow().isoformat(), loader.py line 85
IsoNow1 == <<"2", "0", "2", "5", "-", "0", "1", "-", "0", "1", "T",
             "1", "0", ":", "0", "0", ":", "0", "0">>
IsoNow2 == <<"2", "0", "2", "5", "-", "0", "1", "-", "0", "2", "T",
             "1", "0", ":", "0", "0", ":", "0", "0">>
Clock == {IsoNow1, IsoNow2}

\* Inner dicts: the fields a record of the model service may carry.
InnerDicts ==
    { NoFields,
      [NoFields EXCEPT !.marriage_rate = Num(3, <<"5">>), !.divorce_rate = Num(1, <<"9">>)],
      [NoFields EXCEPT !.country = Str(Spain), !.year = Num(2020, <<>>),
                       !.marriage_rate = Num(6, <<"1">>)],
      [NoFields EXCEPT !.year = Str(<<"a", "b", "c">>)],
      [NoFields EXCEPT !.year = Null],
      [NoFields EXCEPT !.country = Null],
      [NoFields EXCEPT !.year = Str(Key2020),
                       !.marriage_rate = Str(<<"h", "i", "g", "h">>),
                       !.divorce_rate = Str(<<"1", ".", "9">>)],
      [NoFields EXCEPT !.marriage_rate = Null,
                       !.extracted_at = EpochStamp, !.updated_at = EpochStamp] }

\* What a year key can map to: a dict, or something that is not a dict
YearValues ==
    [kind : {"map"}, rec : InnerDicts] \cup [kind : {"list", "scalar"}, rec : {NoFields}]

\* Upper bound on the number of (country, yearKey) pairs of one document
MaxEntries == 2

\* The (country, yearKey) pairs of a document in document order: the pairs
\* of one country are adjacent and no pair occurs twice.
IsPairList(es) ==
    /\ \A a, b \in 1..Len(es) :
         a # b => <<es[a].country, es[a].key>> # <<es[b].country, es[b].key>>
    /\ \A a, b, c \in 1..Len(es) :
         (a < b /\ b < c /\ es[a].country = es[c].country) => es[b].country = es[a].country

\* The nested mapping of a pair list
RECURSIVE Nest(_)
Nest(es) ==
    IF es = <<>> THEN <<>>
    ELSE
        LET e == Head(es)
            y == [key |-> e.key, kind |-> e.val.kind, rec |-> e.val.rec]
            rest == Nest(Tail(es))
        IN  IF rest # <<>> /\ Head(rest).name = e.country
            THEN <<[Head(rest) EXCEPT !.years = <<y>> \o @]>> \o Tail(rest)
            ELSE <<[name |-> e.country, isMap |-> TRUE, years |-> <<y>>]>> \o rest

\* The countries without year entries, listed first: absent from the
\* document, mapped to something that is not a dict, or to an empty dict.
RECURSIVE Childless(_, _)
Childless(names, how) ==
    IF names = {} THEN <<>>
    ELSE
        LET c == CHOOSE x \in names : \A z \in names : Len(x) <= Len(z)
            rest == Childless(names \ {c}, how)
        IN  IF how[c] = "absent" THEN rest
            ELSE <<[name |-> c, isMap |-> how[c] = "empty", years |-> <<>>]>> \o rest

DocOf(es, how) ==
    Childless({ c \in Countries : \A k \in 1..Len(es) : es[k].country # c }, how) \o Nest(es)

(***************************************************************************)
(* loader.py, step 2: the flatten loop (lines 62-89)                       *)
(***************************************************************************)
\* One iteration of the inner loop, lines 68-89.  kind = "raise": the
\* iteration ends in an uncaught exception (a scalar has no .copy(), a list
\* takes no string index); "skip": the continue of line 82; "rec": the
\* record appended at line 89.
FlattenYear(country, y, now) ==
    IF y.kind # "map"
    THEN [kind |-> "raise", rec |-> NoFields]
    ELSE
        LET r0 == y.rec
            r1 == IF r0.country.t = "absent"
                  THEN [r0 EXCEPT !.country = Str(country)] ELSE r0
            parsed == ParseInt(y.key)
        IN  IF r1.year.t = "absent" /\ ~parsed.ok
            THEN [kind |-> "skip", rec |-> NoFields]
            ELSE
                LET r2 == IF r1.year.t = "absent"
                          THEN [r1 EXCEPT !.year = Num(parsed.v, <<>>)] ELSE r1
                    r3 == [r2 EXCEPT
                             !.extracted_at = IF @.t = "absent" THEN Str(now) ELSE @,
                             !.updated_at = Str(now)]
                IN  [kind |-> "rec", rec |-> r3]

\* The inner loop over one country's year entries, in document order.
RECURSIVE FlattenYears(_, _, _)
FlattenYears(country, ys, now) ==
    IF ys = <<>> THEN [raised |-> FALSE, recs |-> <<>>]
    ELSE
        LET one == FlattenYear(country, Head(ys), now)
        IN  IF one.kind = "raise" THEN [raised |-> TRUE, recs |-> <<>>]
            ELSE
                LET rest == FlattenYears(country, Tail(ys), now)
                IN  [raised |-> rest.raised,
                     recs |-> IF rest.raised THEN <<>>
                              ELSE IF one.kind = "rec" THEN <<one.rec>> \o rest.recs
                              ELSE rest.recs]

\* The outer loop, lines 63-89.  A country whose value is not a dict is
\* skipped (line 64); an exception leaves the function, so no list is left.
RECURSIVE FlattenDoc(_, _)
FlattenDoc(doc, now) ==
    IF doc = <<>> THEN [raised |-> FALSE, recs |-> <<>>]
    ELSE
        LET c == Head(doc)
            mine == IF c.isMap THEN FlattenYears(c.name, c.years, now)
                    ELSE [raised |-> FALSE, recs |-> <<>>]
        IN  IF mine.raised THEN [raised |-> TRUE, recs |-> <<>>]
            ELSE
                LET rest == FlattenDoc(Tail(doc), now)
                IN  [raised |-> rest.raised,
                     recs |-> IF rest.raised THEN <<>> ELSE mine.recs \o rest.recs]

(***************************************************************************)
(* loader.py, steps 3-4: DataFrame and numeric coercion (lines 96-118)     *)
(***************************************************************************)
NumericCols == {"year", "marriage_rate", "divorce_rate", "extracted_at", "updated_at"}

\* pd.DataFrame(flat_records).columns: every key some record has
Columns(recs) == { c \in Fields : \E k \in 1..Len(recs) : recs[k][c].t # "absent" }

\* One cell of the frame after lines 109-115: a key the record lacks is NaN,
\* numeric columns go through pd.to_numeric, and NaN/None become None (the
\* replacement the comment of line 114 describes).
CoerceCell(col, v) ==
    LET cell == IF v.t = "absent" THEN NaN ELSE v
        typed == IF col \in NumericCols THEN ToNumeric(cell) ELSE cell
    IN  IF NotNA(typed) THEN typed ELSE Null

\* df.to_dict('records'), line 118: every record has every column of the frame
CoerceRecords(recs) ==
    LET cols == Columns(recs)
    IN  [k \in 1..Len(recs) |->
            [c \in Fields |-> IF c \in cols THEN CoerceCell(c, recs[k][c]) ELSE Absent]]

(***************************************************************************)
(* The store: table demographics_data1 with the schema the loader expects  *)
(* (lines 139-146): primary key (country, year), year INTEGER.             *)
(***************************************************************************)
KeyOf(r) == <<r.country, r.year>>

ValidKey(r) == r.country.t = "str" /\ IsIntegerValue(r.year)

DistinctBatchKeys(batch) ==
    \A a, b \in 1..Len(batch) : a # b => KeyOf(batch[a]) # KeyOf(batch[b])

\* The store refuses the whole batch on a null or non-integer key column and
\* on two records with one key (a row cannot be updated twice by one upsert).
StoreAccepts(batch) ==
    /\ \A k \in 1..Len(batch) : ValidKey(batch[k])
    /\ DistinctBatchKeys(batch)

\* The row a record leaves: the columns it carries overwrite the existing
\* row's, the others keep the existing value (or the column default, NULL).
MergedRow(tbl, r) ==
    LET old == { e \in tbl : KeyOf(e) = KeyOf(r) }
    IN  [c \in Fields |->
            IF r[c].t # "absent" THEN r[c]
            ELSE IF old # {} THEN (CHOOSE e \in old : TRUE)[c]
            ELSE Null]

\* A faulty variant of UpsertRows: insert without conflict resolution
UpsertRowsAppend(tbl, batch) ==
    tbl \cup { MergedRow({}, batch[k]) : k \in 1..Len(batch) }

\* upsert(records_to_upsert, on_conflict="country, year"), lines 125-128
UpsertRows(tbl, batch) ==
    { e \in tbl : \A k \in 1..Len(batch) : KeyOf(e) # KeyOf(batch[k]) }
        \cup { MergedRow(tbl, batch[k]) : k \in 1..Len(batch) }

(***************************************************************************)
(* loader.py: the actions of one run of load_data_and_upsert               *)
(***************************************************************************)
\* Upper bound on the number of loader runs against one table
MaxRuns == 2

LoaderStart ==
    /\ pc = "start"
    /\ data = <<>>
    /\ flat_records = <<>>
    /\ records_to_upsert = <<>>
    /\ table = {}
    /\ report = "none"
    /\ exit_status = "running"
    /\ store_error = FALSE
    /\ runs = 1

\* Step 1, lines 39-58: read and parse structured_data.json.  The file is
\* missing, is not JSON, holds a root that is not a dict, or holds a root
\* mapping of at most MaxEntries (country, yearKey) pairs over keys and values.
LoadJson(keys, values) ==
    /\ pc = "start"
    /\ \/ \E why \in {"file_not_found", "json_error", "root_not_dict"} :
            /\ report' = why
            /\ pc' = "done"
            /\ exit_status' = "returned"
            /\ data' = data
       \/ \E n \in 0..MaxEntries :
          \E es \in [1..n -> [country : Countries, key : keys, val : values]] :
          \E how \in [Countries -> {"absent", "notdict", "empty"}] :
            /\ IsPairList(es)
            /\ data' = DocOf(es, how)
            /\ pc' = "loaded"
            /\ report' = "loaded"
            /\ exit_status' = exit_status
    /\ UNCHANGED <<flat_records, records_to_upsert, table, store_error, runs>>
    /\ UNCHANGED <<structurerVars, collectorVars>>

\* A faulty variant of Flatten: the empty test of line 91 is missing
FlattenWithoutEmptyTest ==
    /\ pc = "loaded"
    /\ \E now \in Clock :
         LET out == FlattenDoc(data, now)
         IN  /\ flat_records' = out.recs
             /\ IF out.raised
                THEN /\ pc' = "done"
                     /\ exit_status' = "raised"
                     /\ report' = "traceback"
                ELSE /\ pc' = "flattened"
                     /\ exit_status' = exit_status
                     /\ report' = report
    /\ UNCHANGED <<data, records_to_upsert, table, store_error, runs>>
    /\ UNCHANGED <<structurerVars, collectorVars>>

\* Step 2, lines 60-93: flatten, then the empty-result report.
Flatten ==
    /\ pc = "loaded"
    /\ \E now \in Clock :
         LET out == FlattenDoc(data, now)
         IN  /\ flat_records' = out.recs
             /\ IF out.raised
                THEN /\ pc' = "done"
                     /\ exit_status' = "raised"
                     /\ report' = "traceback"
                ELSE IF out.recs = <<>>
                THEN /\ pc' = "done"
                     /\ exit_status' = "returned"
                     /\ report' = "no_records"
                ELSE /\ pc' = "flattened"
                     /\ exit_status' = exit_status
                     /\ report' = report
    /\ UNCHANGED <<data, records_to_upsert, table, store_error, runs>>
    /\ UNCHANGED <<structurerVars, collectorVars>>

\* Steps 3-4, lines 95-120: DataFrame, coercion, back to a list of dicts.
ToRecords ==
    /\ pc = "flattened"
    /\ records_to_upsert' = CoerceRecords(flat_records)
    /\ pc' = "coerced"
    /\ UNCHANGED <<data, flat_records, table, report, exit_status, store_error, runs>>
    /\ UNCHANGED <<structurerVars, collectorVars>>

\* Step 5, lines 122-146: the upsert call.  Every exception of the call is
\* caught at line 135 and printed; the function then returns normally.
Upsert ==
    /\ pc = "coerced"
    /\ \E reachable \in BOOLEAN :
         IF reachable /\ StoreAccepts(records_to_upsert)
         THEN /\ table' = UpsertRows(table, records_to_upsert)
              /\ report' = "upsert_ok"
              /\ store_error' = FALSE
         ELSE /\ table' = table
              /\ report' = "upsert_error"
              /\ store_error' = TRUE
    /\ pc' = "done"
    /\ exit_status' = "returned"
    /\ UNCHANGED <<data, flat_records, records_to_upsert, runs>>
    /\ UNCHANGED <<structurerVars, collectorVars>>

\* The script is run again (lines 148-150) against the same table.
NextRun ==
    /\ pc = "done"
    /\ runs < MaxRuns
    /\ runs' = runs + 1
    /\ pc' = "start"
    /\ data' = <<>>
    /\ flat_records' = <<>>
    /\ records_to_upsert' = <<>>
    /\ report' = "none"
    /\ exit_status' = "running"
    /\ store_error' = FALSE
    /\ UNCHANGED table
    /\ UNCHANGED <<structurerVars, collectorVars>>


(***************************************************************************)
(* structurer.py.  The model's reply is a sequence of JSON tokens over     *)
(*   "{" "}" "[" "]"  "k:" (a member name with its colon)  "1" (a number), *)
(* so arrays and objects of this alphabet carry at most one element.       *)
(***************************************************************************)
JsonTokens == {"{", "}", "[", "]", "k:", "1"}

\* Upper bound on the number of tokens of a reply
MaxPayload == 4

Payloads == UNION { [1..n -> JsonTokens] : n \in 0..MaxPayload }

\* One JSON value at the head of toks: [ok, rest] with rest the tokens left
RECURSIVE ParseValue(_)
ParseValue(toks) ==
    LET fail == [ok |-> FALSE, rest |-> <<>>]
    IN  IF toks = <<>> THEN fail
        ELSE IF Head(toks) = "1" THEN [ok |-> TRUE, rest |-> Tail(toks)]
        ELSE IF Head(toks) = "["
        THEN IF Len(toks) >= 2 /\ toks[2] = "]"
             THEN [ok |-> TRUE, rest |-> SubSeq(toks, 3, Len(toks))]
             ELSE LET el == ParseValue(Tail(toks))
                  IN  IF el.ok /\ el.rest # <<>> /\ Head(el.rest) = "]"
                      THEN [ok |-> TRUE, rest |-> Tail(el.rest)]
                      ELSE fail
        ELSE IF Head(toks) = "{"
        THEN IF Len(toks) >= 2 /\ toks[2] = "}"
             THEN [ok |-> TRUE, rest |-> SubSeq(toks, 3, Len(toks))]
             ELSE IF Len(toks) >= 2 /\ toks[2] = "k:"
             THEN LET el == ParseValue(SubSeq(toks, 3, Len(toks)))
                  IN  IF el.ok /\ el.rest # <<>> /\ Head(el.rest) = "}"
                      THEN [ok |-> TRUE, rest |-> Tail(el.rest)]
                      ELSE fail
             ELSE fail
        ELSE fail

\* json.loads(structured_json_str), line 92: succeeds on exactly one value
JsonLoads(toks) ==
    LET v == ParseValue(toks)
    IN  v.ok /\ v.rest = <<>>

\* The Python type of a parsed root
RootKind(toks) ==
    CASE toks = <<>> -> "none"
      [] Head(toks) = "{" -> "dict"
      [] Head(toks) = "[" -> "list"
      [] OTHER -> "number"

StructurerStart ==
    /\ s_pc = "start"
    /\ payload = <<>>
    /\ artifact = <<>>
    /\ s_report = "none"

\* Lines 22-31: read data/raw_blob.txt; without it the script exits.
LoadBlob ==
    /\ s_pc = "start"
    /\ \E found \in BOOLEAN :
         IF found
         THEN s_pc' = "blob" /\ s_report' = "blob_loaded"
         ELSE s_pc' = "done" /\ s_report' = "blob_not_found"
    /\ UNCHANGED <<payload, artifact>>
    /\ UNCHANGED <<loaderVars, collectorVars>>

\* Lines 74-85: the chat completion.  The call raises (transport or service
\* failure, caught at line 108) or returns the reply's content.
CallModel ==
    /\ s_pc = "blob"
    /\ \/ /\ s_pc' = "done"
          /\ s_report' = "call_or_write_error"
          /\ payload' = payload
       \/ \E reply \in Payloads :
          /\ payload' = reply
          /\ s_pc' = "replied"
          /\ s_report' = s_report
    /\ UNCHANGED artifact
    /\ UNCHANGED <<loaderVars, collectorVars>>

\* Lines 91-110: parse, write data/structured_data.json, report.  A reply
\* that does not parse ends at line 104; a parsed root of any type is
\* written (lines 95-99); len(data) of line 102 raises for a number, after
\* the write, and is caught at line 108.
SaveArtifact ==
    /\ s_pc = "replied"
    /\ IF ~JsonLoads(payload)
       THEN /\ artifact' = artifact
            /\ s_report' = "json_parse_failed"
       ELSE /\ artifact' = payload
            /\ s_report' = IF RootKind(payload) = "number"
                           THEN "call_or_write_error" ELSE "saved"
    /\ s_pc' = "done"
    /\ UNCHANGED payload
    /\ UNCHANGED <<loaderVars, collectorVars>>

\* The script is run again; the artifact stays on disk.
StructurerRerun ==
    /\ s_pc = "done"
    /\ s_pc' = "start"
    /\ payload' = <<>>
    /\ s_report' = "none"
    /\ UNCHANGED artifact
    /\ UNCHANGED <<loaderVars, collectorVars>>

(***************************************************************************)
(* collector.py : extract_clean_content, lines 9-69 (fetch, container      *)
(* choice, line filter).                                                   *)
(***************************************************************************)
\* The selectors of line 39, in the order they are tried
Selectors == <<"main", "article", ".content", ".post-content", ".entry-content">>

\* len(main_content.get_text(strip=True)) > 1000, line 41
MinContentLength == 1000

\* soup.select_one(selector) found nothing
NoMatch == 0 - 1

\* A page after lines 19-36: for each selector the length of the text of
\* its first match (NoMatch when there is none), and whether a body exists
Pages ==
    [len : [1..Len(Selectors) -> {NoMatch, MinContentLength, MinContentLength + 1}],
     body : BOOLEAN]

\* The loop of lines 38-42 from selector k on, current being main_content:
\* each selector's match is assigned, and the loop stops at the first match
\* whose text is longer than MinContentLength.
RECURSIVE SelectorLoop(_, _, _)
SelectorLoop(p, k, current) ==
    IF k > Len(Selectors) THEN current
    ELSE
        LET found == IF p.len[k] = NoMatch THEN "none" ELSE Selectors[k]
        IN  IF found # "none" /\ p.len[k] > MinContentLength
            THEN found
            ELSE SelectorLoop(p, k + 1, found)

\* Lines 38-48: the container, "none" when line 48 raises
ChooseContainer(p) ==
    LET looped == SelectorLoop(p, 1, "none")
    IN  IF looped # "none" THEN looped
        ELSE IF p.body THEN "body"
        ELSE "none"

\* The en dash of the pattern of line 66, as one character
EnDash == "en-dash"

\* [\d\s\-(en dash),\.%\(\)\[\]] of line 66
NumericLineChars ==
    DigitChars \cup WhitespaceChars \cup {"-", EnDash, ",", ".", "%", "(", ")", "[", "]"}

\* skip_phrases, lines 55-56
SkipPhrases ==
    { <<"m", "e", "n", "u">>,
      <<"s", "e", "a", "r", "c", "h">>,
      <<"h", "o", "m", "e">>,
      <<"a", "b", "o", "u", "t">>,
      <<"c", "o", "n", "t", "a", "c", "t">>,
      <<"d", "o", "n", "a", "t", "e">>,
      <<"t", "w", "i", "t", "t", "e", "r">>,
      <<"f", "a", "c", "e", "b", "o", "o", "k">>,
      <<"s", "h", "a", "r", "e">>,
      <<"e", "m", "b", "e", "d">>,
      <<"d", "o", "w", "n", "l", "o", "a", "d">> }

UpperToLower ==
    [c \in {"A", "B", "C", "D", "E", "F", "G", "H", "I", "J", "K", "L", "M",
            "N", "O", "P", "Q", "R", "S", "T", "U", "V", "W", "X", "Y", "Z"} |->
        CASE c = "A" -> "a" [] c = "B" -> "b" [] c = "C" -> "c" [] c = "D" -> "d"
          [] c = "E" -> "e" [] c = "F" -> "f" [] c = "G" -> "g" [] c = "H" -> "h"
          [] c = "I" -> "i" [] c = "J" -> "j" [] c = "K" -> "k" [] c = "L" -> "l"
          [] c = "M" -> "m" [] c = "N" -> "n" [] c = "O" -> "o" [] c = "P" -> "p"
          [] c = "Q" -> "q" [] c = "R" -> "r" [] c = "S" -> "s" [] c = "T" -> "t"
          [] c = "U" -> "u" [] c = "V" -> "v" [] c = "W" -> "w" [] c = "X" -> "x"
          [] c = "Y" -> "y" [] c = "Z" -> "z"]

\* str.lower()
Lower(s) ==
    [k \in 1..Len(s) |-> IF s[k] \in DOMAIN UpperToLower THEN UpperToLower[s[k]] ELSE s[k]]

\* sub in s
Contains(s, sub) ==
    \E k \in 1..(Len(s) - Len(sub) + 1) : SubSeq(s, k, k + Len(sub) - 1) = sub

\* re.match(r'^[...]+$', line), line 66
MatchesNumericLine(s) ==
    s # <<>> /\ \A k \in 1..Len(s) : s[k] \in NumericLineChars

\* len(line) < 15, line 60
MinLineLength == 15

\* A faulty variant of KeepLine: the keyword test without lower()
KeepLineCaseSensitive(line) ==
    /\ ~(line = <<>> \/ Len(line) < MinLineLength)
    /\ ~(\E phrase \in SkipPhrases : Contains(line, phrase))
    /\ ~MatchesNumericLine(line)

\* The three tests of lines 60-67 on a stripped line: TRUE when no continue
\* is taken
KeepLine(line) ==
    /\ ~(line = <<>> \/ Len(line) < MinLineLength)
    /\ ~(\E phrase \in SkipPhrases : Contains(Lower(line), phrase))
    /\ ~MatchesNumericLine(line)

\* "1,234 (56%)": digits and punctuation, 11 characters
LineNumbers ==
    <<"1", ",", "2", "3", "4", " ", "(", "5", "6", "%", ")">>

\* "Share this article": a boilerplate keyword, capitalised
LineShare ==
    <<"S", "h", "a", "r", "e", " ", "t", "h", "i", "s", " ", "a", "r", "t",
      "i", "c", "l", "e">>

\* "Marriage rates fell sharply after 1970."
LineMarriage ==
    <<"M", "a", "r", "r", "i", "a", "g", "e", " ", "r", "a", "t", "e", "s",
      " ", "f", "e", "l", "l", " ", "s", "h", "a", "r", "p", "l", "y", " ",
      "a", "f", "t", "e", "r", " ", "1", "9", "7", "0", ".">>

\* "Divorce rates.": 14 characters
LineFourteen ==
    <<"D", "i", "v", "o", "r", "c", "e", " ", "r", "a", "t", "e", "s", ".">>

\* "Divorce rate up": 15 characters
LineFifteen ==
    <<"D", "i", "v", "o", "r", "c", "e", " ", "r", "a", "t", "e", " ", "u",
      "p">>

\* 14 characters between leading and trailing whitespace
LinePadded ==
    <<" ", " ", "D", "i", "v", "o", "r", "c", "e", " ", "r", "a", "t", "e",
      "s", ".", " ", "\t">>

\* digits, whitespace and punctuation only, 21 characters
LineRange ==
    <<"1", "9", "9", "0", EnDash, "2", "0", "0", "0", ",", " ", "4", "5",
      ".", "6", "%", " ", "[", "1", "2", "]">>

\* "search" inside a word
LineResearch ==
    <<"R", "e", "s", "e", "a", "r", "c", "h", "e", "r", "s", " ", "f", "o",
      "u", "n", "d", " ", "i", "t">>

\* digits with letters, kept after trimming
LineMixed ==
    <<" ", "1", "9", "9", "0", "-", "2", "0", "0", "0", ":", " ", "r", "a",
      "t", "e", "s", " ", "u", "p", " ", "5", "%">>

LinePool ==
    { LineNumbers, LineShare, LineMarriage, LineFourteen, LineFifteen,
      LinePadded, LineRange, LineResearch, LineMixed }

\* The tests of lines 59-67 on each line of the pool (evaluated once)
PoolVerdict == [l \in LinePool |-> KeepLine(Strip(l))]

\* The loop of lines 58-69 over lines of the pool: a line that passes the
\* tests is appended stripped (line 69)
RECURSIVE FilterLoop(_)
FilterLoop(ls) ==
    IF ls = <<>> THEN <<>>
    ELSE
        IF PoolVerdict[Head(ls)] THEN <<Strip(Head(ls))>> \o FilterLoop(Tail(ls))
        ELSE FilterLoop(Tail(ls))

\* Upper bound on the number of lines of the chosen container's text
MaxLines == 2

Texts == UNION { [1..n -> LinePool] : n \in 0..MaxLines }

CollectorStart ==
    /\ c_pc = "start"
    /\ page = [len |-> [k \in 1..Len(Selectors) |-> NoMatch], body |-> FALSE]
    /\ main_content = "none"
    /\ lines = <<>>
    /\ clean_lines = <<>>

\* Lines 17-36: fetch and parse; raise_for_status raises on an HTTP error.
FetchPage ==
    /\ c_pc = "start"
    /\ \/ c_pc' = "fetch_failed" /\ page' = page
       \/ \E p \in Pages : page' = p /\ c_pc' = "parsed"
    /\ UNCHANGED <<main_content, lines, clean_lines>>
    /\ UNCHANGED <<loaderVars, structurerVars>>

\* Lines 38-48: choose the container or raise ValueError.
SelectContainer ==
    /\ c_pc = "parsed"
    /\ main_content' = ChooseContainer(page)
    /\ c_pc' = IF ChooseContainer(page) = "none" THEN "content_not_found" ELSE "selected"
    /\ UNCHANGED <<page, lines, clean_lines>>
    /\ UNCHANGED <<loaderVars, structurerVars>>

\* Lines 50-69: the text of the container, split in lines and filtered.
FilterLines ==
    /\ c_pc = "selected"
    /\ \E text \in Texts :
         /\ lines' = text
         /\ clean_lines' = FilterLoop(text)
    /\ c_pc' = "filtered"
    /\ UNCHANGED <<page, main_content>>
    /\ UNCHANGED <<loaderVars, structurerVars>>

(***************************************************************************)
(* Specifications.  The three scripts are separate processes that meet     *)
(* only through files, so each has its own specification; the other        *)
(* scripts' variables stay at their start values.                          *)
(***************************************************************************)
\* One run of the loader over the documents of at most MaxEntries pairs
LoaderInit == LoaderStart /\ StructurerStart /\ CollectorStart

LoaderNext ==
    \/ LoadJson(YearKeys, YearValues)
    \/ Flatten
    \/ ToRecords
    \/ Upsert

SpecLoader == LoaderInit /\ [][LoaderNext]_vars


\* Repeated runs against one table, over documents whose year entries are
\* dicts under a parseable key
ReloadDicts ==
    { [NoFields EXCEPT !.marriage_rate = Num(3, <<"5">>), !.divorce_rate = Num(1, <<"9">>)],
      [NoFields EXCEPT !.country = Str(Spain), !.year = Num(2020, <<>>),
                       !.marriage_rate = Num(6, <<"1">>)] }

ReloadValues == [kind : {"map"}, rec : ReloadDicts]

ReloadNext ==
    \/ LoadJson({Key2019, Key2020}, ReloadValues)
    \/ Flatten
    \/ ToRecords
    \/ Upsert
    \/ NextRun

SpecReload == LoaderInit /\ [][ReloadNext]_vars

\* Repeated runs against one table, over documents whose year entries are
\* dicts under a key that parses or under the key "not-a-year"
EmptyNext ==
    \/ LoadJson({Key2019, KeyNotAYear}, ReloadValues)
    \/ Flatten
    \/ ToRecords
    \/ Upsert
    \/ NextRun

SpecEmpty == LoaderInit /\ [][EmptyNext]_vars


(***************************************************************************)
(* Claims about the loader                                                 *)
(***************************************************************************)
\* The flatten loop ended by falling through to line 91
FlattenReturned ==
    \/ pc \in {"flattened", "coerced"}
    \/ pc = "done" /\ report \in {"no_records", "upsert_ok", "upsert_error"}

\* The flatten loop ended, by line 91 or by an exception
FlattenEnded == FlattenReturned \/ (pc = "done" /\ report = "traceback")

\* The upsert call of line 125 was made with records_to_upsert
Submitted == pc = "done" /\ report \in {"upsert_ok", "upsert_error"}

\* The (country, yearKey) pairs of a document, as positions <<c, y>>
Pairs(doc) ==
    { p \in (1..Len(doc)) \X (1..MaxEntries + 1) : p[2] <= Len(doc[p[1]].years) }

YearEntryAt(doc, p) == doc[p[1]].years[p[2]]

\* The year of a pair is parseable as an integer: the embedded year when
\* there is one, the year key otherwise
YearParseable(y) ==
    IF y.rec.year.t = "absent" THEN ParseInt(y.key).ok
    ELSE \/ IsIntegerValue(y.rec.year)
         \/ y.rec.year.t = "str" /\ ParseInt(y.rec.year.s).ok

QualifyingPairs(doc) ==
    { p \in Pairs(doc) : YearEntryAt(doc, p).kind = "map" /\ YearParseable(YearEntryAt(doc, p)) }

MappingOfMappings(doc) == \A c \in 1..Len(doc) : doc[c].isMap

\* C1: for a root that is a mapping of mappings, flatten emits exactly one
\* record per (country, yearKey) pair whose inner value is a mapping and
\* whose year (embedded, else the key) is parseable as an integer, and no
\* record for any other pair.
C1_OneRecordPerParseablePair ==
    (FlattenReturned /\ MappingOfMappings(data))
        => Len(flat_records) = Cardinality(QualifyingPairs(data))

NumericOrNull(v) == v.t \in {"num", "null", "absent"}

\* C2: flattening never ends in an error, and every value of a numeric
\* column that is not numeric is null in the records handed to the store.
C2_FlattenNeverRaises ==
    /\ exit_status # "raised"
    /\ \A k \in 1..Len(records_to_upsert) : \A c \in NumericCols :
         NumericOrNull(records_to_upsert[k][c])

WellFormed(y) ==
    /\ y.kind = "map"
    /\ IF y.rec.year.t = "absent" THEN ParseInt(y.key).ok ELSE IsIntegerValue(y.rec.year)

\* C4: a malformed year entry never discards its siblings: every well-formed
\* year entry of every country that is a mapping is in the flattened output.
C4_SiblingsSurvive ==
    FlattenEnded =>
        \A p \in Pairs(data) :
            (data[p[1]].isMap /\ WellFormed(YearEntryAt(data, p))) =>
                \E k \in 1..Len(flat_records) : \E now \in Clock :
                    flat_records[k] = FlattenYear(data[p[1]].name, YearEntryAt(data, p), now).rec

\* C7: in every record handed to the store, updated_at is the non-null
\* numeric flatten timestamp and extracted_at is the embedded value when
\* there is one, else that timestamp.
C7_TimestampsStamped ==
    Submitted =>
        \A k \in 1..Len(records_to_upsert) :
            /\ records_to_upsert[k].updated_at.t = "num"
            /\ flat_records[k].extracted_at.t = "num"
                   => records_to_upsert[k].extracted_at = flat_records[k].extracted_at
            /\ records_to_upsert[k].extracted_at.t # "null"
                   \/ flat_records[k].extracted_at.t = "null"

\* C9: when the upsert call fails, the loader ends in a failed outcome, not
\* in the normal return of a successful run.
C9_UpsertFailureIsFatal ==
    (pc = "done" /\ store_error) => exit_status # "returned"

\* C10: every record submitted to the store has a non-null country and a
\* non-null integer year.
C10_SubmittedKeysNonNull ==
    Submitted =>
        \A k \in 1..Len(records_to_upsert) :
            /\ records_to_upsert[k].country.t = "str"
            /\ IsIntegerValue(records_to_upsert[k].year)

\* C11: when the flatten loop ends with zero records, the run reports the
\* empty-result condition and returns without raising; no upsert call is
\* made in that run and the table is left as it was.
C11_EmptyResultReported ==
    /\ [](FlattenReturned /\ flat_records = <<>>
             => /\ pc = "done"
                /\ report = "no_records"
                /\ exit_status = "returned"
                /\ records_to_upsert = <<>>)
    /\ [][(report = "no_records" \/ report' = "no_records")
             => /\ table' = table
                /\ pc' \notin {"flattened", "coerced"}
                /\ report' \notin {"upsert_ok", "upsert_error"}]_vars

\* C11 witness: a later run over a document whose entries all sit under the
\* key "not-a-year" ended with the empty-result report, the table still
\* holding the rows of an earlier run.
C11_Witness ==
    /\ pc = "done" /\ report = "no_records" /\ exit_status = "returned"
    /\ runs > 1 /\ table # {}
    /\ flat_records = <<>>
    /\ Pairs(data) # {}
    /\ \A p \in Pairs(data) : YearEntryAt(data, p).key = KeyNotAYear

\* C12: the flattened records, and so every batch submitted to the store,
\* are pairwise distinct on (country, year).
C12_BatchKeysDistinct ==
    /\ FlattenReturned => DistinctBatchKeys(flat_records)
    /\ Submitted => DistinctBatchKeys(records_to_upsert)


(***************************************************************************)
(* Claims about the structurer                                             *)
(***************************************************************************)
StructurerInit == StructurerStart /\ LoaderStart /\ CollectorStart

StructurerNext ==
    \/ LoadBlob
    \/ CallModel
    \/ SaveArtifact
    \/ StructurerRerun

SpecStructurer == StructurerInit /\ [][StructurerNext]_vars

\* C6: structured_data.json is written only when the reply parsed as JSON
\* whose root is a mapping; on a failed call, an unparseable reply or a root
\* that is not a mapping the stage ends in failure and the file is left as
\* it was.
C6_WrittenOnlyForMappingRoot ==
    /\ artifact # <<>> => (JsonLoads(artifact) /\ RootKind(artifact) = "dict")
    /\ (s_pc = "done" /\ s_report = "saved") => RootKind(payload) = "dict"


(***************************************************************************)
(* Claims about the collector                                              *)
(***************************************************************************)
CollectorInit == CollectorStart /\ LoaderStart /\ StructurerStart

CollectorNext ==
    \/ FetchPage
    \/ SelectContainer
    \/ FilterLines

SpecCollector == CollectorInit /\ [][CollectorNext]_vars

Qualifying(p) == { k \in 1..Len(Selectors) : p.len[k] # NoMatch /\ p.len[k] > MinContentLength }

\* C5: the container is the first selector, in order, whose text is longer
\* than 1000 characters; if none qualifies it is the body; the
\* content-not-found error is raised only when the body is absent too.
C5_FirstQualifyingElseBody ==
    /\ c_pc \in {"selected", "filtered"} =>
         main_content =
            IF Qualifying(page) # {}
            THEN Selectors[CHOOSE k \in Qualifying(page) : \A j \in Qualifying(page) : k <= j]
            ELSE "body"
    /\ c_pc = "content_not_found" => (Qualifying(page) = {} /\ ~page.body)

\* C8: the filter keeps a line exactly when, trimmed, it has at least 15
\* characters, contains no boilerplate keyword in any letter case and is not
\* made up of digits, whitespace and - (en dash) , . % ( ) [ ] alone; the
\* kept lines stay in their order; "1,234 (56%)" and "Share this article"
\* are dropped and "Marriage rates fell sharply after 1970." is kept.
C8_Kept(t) ==
    /\ Len(t) >= 15
    /\ \A phrase \in SkipPhrases : ~Contains(Lower(t), phrase)
    /\ \E k \in 1..Len(t) : t[k] \notin NumericLineChars

C8_KeptOfPool == { l \in LinePool : C8_Kept(Strip(l)) }

C8_InKept(l) == l \in C8_KeptOfPool

C8_LineFilter ==
    c_pc = "filtered" =>
        /\ clean_lines = [k \in 1..Len(SelectSeq(lines, C8_InKept)) |->
                             Strip(SelectSeq(lines, C8_InKept)[k])]
        /\ \A k \in 1..Len(clean_lines) : clean_lines[k] \notin {LineNumbers, LineShare}
        /\ \A k \in 1..Len(lines) :
             lines[k] = LineMarriage => \E j \in 1..Len(clean_lines) : clean_lines[j] = LineMarriage

\* C8 witness: a text of a dropped line followed by a kept one
C8_Witness ==
    /\ c_pc = "filtered"
    /\ lines = <<LineShare, LineMarriage>>
    /\ clean_lines = <<LineMarriage>>

====
